---- MODULE Spec2Model ----
(***************************************************************************)
(* Model of src/metadata.rs: the GCE metadata-server token flow            *)
(* (MetadataAccessImpl, an implementation of GetToken).                    *)
(*                                                                         *)
(* A token() call hands one fixed GET request to the injected hyper client *)
(* and returns a future.  The future resolves when the transport fails,    *)
(* or when the whole body has arrived; the closures of the combinator      *)
(* chain (map, then, and_then; lines 91-124) then run in one poll.         *)
(***************************************************************************)
EXTENDS Integers, Sequences, FiniteSets

\* ------------------------------------------------------------------ bounds
\* token() calls made on the one client, numbered in the order they are made.
MaxCalls == 2
\* The clock (seconds) runs from 0 to MaxClock.
MaxClock == 2
\* Longest JSON array among the generated bodies.
MaxItems == 4

Calls == 1..MaxCalls

\* ------------------------------------------------------- JSON documents
\* A JSON value of a member or an array item: its JSON type and content.
JStr(s) == [t |-> "string", s |-> s, n |-> 0]
JInt(n) == [t |-> "integer", s |-> "", n |-> n]
JFloat == [t |-> "float", s |-> "", n |-> 0]
JNull == [t |-> "null", s |-> "", n |-> 0]

\* A decoded body text: not JSON at all, a JSON object (its members in the
\* order of the text, duplicates possible), a JSON array, or a JSON scalar.
Malformed == [kind |-> "malformed", items |-> <<>>]
JObject(members) == [kind |-> "object", items |-> members]
JArray(values) == [kind |-> "array", items |-> [i \in DOMAIN values |-> [k |-> "", v |-> values[i]]]]
JScalar(v) == [kind |-> "scalar", items |-> <<[k |-> "", v |-> v]>>]
Member(k, v) == [k |-> k, v |-> v]

\* The bytes of a response body: valid UTF-8 carrying a text, or not UTF-8.
Utf8(text) == [utf8 |-> TRUE, text |-> text]
NotUtf8 == [utf8 |-> FALSE, text |-> Malformed]

\* ------------------------------------------------------- request (19-26)
TokenUri == "http://metadata.google.internal/computeMetadata/v1/instance/service-accounts/default/token"

\* hyper::Request::builder().uri(..).header(..).method(..).body(Body::empty())
\* A URI is its text up to the query, and the parameters of its query.
Uri(text, query) == [text |-> text, query |-> query]
BuilderNew == [method |-> "GET", uri |-> Uri("/", <<>>), headers |-> {}, body |-> <<>>]
BuilderUri(b, u) == [b EXCEPT !.uri = u]
BuilderHeader(b, name, value) == [b EXCEPT !.headers = @ \cup {<<name, value>>}]
BuilderMethod(b, m) == [b EXCEPT !.method = m]
BuilderBody(b, bytes) == [b EXCEPT !.body = bytes]

build_token_request ==
    BuilderBody(
        BuilderMethod(
            BuilderHeader(BuilderUri(BuilderNew, Uri(TokenUri, <<>>)),
                          "Metadata-Flavor", "Google"),
            "GET"),
        <<>>)

\* A request that sends the scopes as query parameters.
RequestWithScopes(scopes) ==
    BuilderUri(build_token_request, Uri(TokenUri, scopes))

\* The request token() hands to the client: scopes is not used (line 90).
RequestFor(scopes) == build_token_request

\* ------------------------------------------- JSONTokenResponse (28-33)
JSONTokenResponse(a, e, t) == [access_token |-> a, expires_in |-> e, token_type |-> t]
NoTokens == JSONTokenResponse("", 0, "")
FieldNames == <<"access_token", "expires_in", "token_type">>
FieldType(k) == IF k = "expires_in" THEN "integer" ELSE "string"

ParseOk(tokens) == [ok |-> TRUE, tokens |-> tokens, err |-> ""]
ParseErr(e) == [ok |-> FALSE, tokens |-> NoTokens, err |-> e]

SetField(tokens, k, v) ==
    IF k = "access_token" THEN [tokens EXCEPT !.access_token = v.s]
    ELSE IF k = "expires_in" THEN [tokens EXCEPT !.expires_in = v.n]
    ELSE [tokens EXCEPT !.token_type = v.s]

\* The derived Deserialize, map form: members are visited in the order of the
\* text; a known key seen twice, or with a value of another JSON type, is an
\* error; an unknown key is skipped; at the end every field must have been seen.
RECURSIVE VisitMap(_, _, _, _)
VisitMap(members, i, seen, tokens) ==
    IF i > Len(members)
    THEN IF seen = {"access_token", "expires_in", "token_type"}
         THEN ParseOk(tokens)
         ELSE ParseErr("missing field")
    ELSE LET m == members[i] IN
         IF m.k \notin {"access_token", "expires_in", "token_type"}
         THEN VisitMap(members, i + 1, seen, tokens)
         ELSE IF m.k \in seen
         THEN ParseErr("duplicate field")
         ELSE IF m.v.t # FieldType(m.k)
         THEN ParseErr("invalid type")
         ELSE VisitMap(members, i + 1, seen \cup {m.k}, SetField(tokens, m.k, m.v))

\* The derived Deserialize, sequence form: the fields are read by position, in
\* the order of their declaration; serde_json then requires the array to end.
VisitSeq(items) ==
    IF \E i \in 1..3 : i <= Len(items) /\ items[i].v.t # FieldType(FieldNames[i])
    THEN ParseErr("invalid type")
    ELSE IF Len(items) < 3
    THEN ParseErr("invalid length")
    ELSE IF Len(items) > 3
    THEN ParseErr("trailing characters")
    ELSE ParseOk(JSONTokenResponse(items[1].v.s, items[2].v.n, items[3].v.s))

\* serde_json::from_str::<JSONTokenResponse>(&resp) (lines 103-104).
from_str(text) ==
    IF text.kind = "malformed" THEN ParseErr("syntax")
    ELSE IF text.kind = "object" THEN VisitMap(text.items, 1, {}, NoTokens)
    ELSE IF text.kind = "array" THEN VisitSeq(text.items)
    ELSE ParseErr("invalid type")

\* ------------------------------------------------------------ Token
Some(v) == [some |-> TRUE, v |-> v]
NoneInt == [some |-> FALSE, v |-> 0]
NoneStr == [some |-> FALSE, v |-> ""]

Token(a, r, t, e, ts) ==
    [access_token |-> a, refresh_token |-> r, token_type |-> t,
     expires_in |-> e, expires_in_timestamp |-> ts]
NoToken == Token("", NoneStr, "", NoneInt, NoneInt)

\* Token::set_expiry_absolute: expires_in_timestamp = now + expires_in.
set_expiry_absolute(token, clk) ==
    [token EXCEPT !.expires_in_timestamp = Some(clk + token.expires_in.v)]

\* ApplicationSecret::default(): every field empty.
ApplicationSecretDefault ==
    [client_id |-> "", client_secret |-> "", token_uri |-> "", auth_uri |-> "",
     redirect_uris |-> <<>>]

\* ------------------------------------------------- outcomes of a call
Pending == [kind |-> "Pending", token |-> NoToken, err |-> ""]
Resolved(token) == [kind |-> "Token", token |-> token, err |-> ""]
ClientError(e) == [kind |-> "ClientError", token |-> NoToken, err |-> e]
JSONError(e) == [kind |-> "JSONError", token |-> NoToken, err |-> e]
\* The poll panicked: the future never resolves.
Panicked == [kind |-> "Panic", token |-> NoToken, err |-> "FromUtf8Error"]

\* What the transport has delivered to a call so far.
Nothing == [kind |-> "nothing", err |-> "", bytes |-> NotUtf8]
RequestFailed(e) == [kind |-> "request_error", err |-> e, bytes |-> NotUtf8]
BodyFailed(e) == [kind |-> "body_error", err |-> e, bytes |-> NotUtf8]
Body(bytes) == [kind |-> "body", err |-> "", bytes |-> bytes]

\* The and_then closure with access_token and token_type exchanged.
and_then_closure_swapped(tokens, clk) ==
    set_expiry_absolute(
        Token(tokens.token_type, NoneStr, tokens.access_token, Some(tokens.expires_in), NoneInt),
        clk)

\* The and_then closure (lines 113-124); clk is the clock set_expiry_absolute reads.
and_then_closure(tokens, clk) ==
    set_expiry_absolute(
        Token(tokens.access_token, NoneStr, tokens.token_type, Some(tokens.expires_in), NoneInt),
        clk)

\* The then closure (lines 97-112) followed by and_then (113-124), given the
\* decoded body text.
ParseAndBuild(text, clk) ==
    LET token_resp == from_str(text) IN
    IF token_resp.ok THEN Resolved(and_then_closure(token_resp.tokens, clk))
    ELSE JSONError(token_resp.err)

\* The map closure (line 94) and what follows it: unwrap panics on bytes
\* that are not UTF-8.
Decode(bytes, clk) ==
    IF bytes.utf8 THEN ParseAndBuild(bytes.text, clk) ELSE Panicked

\* ------------------------------------------------------------ inputs
\* scopes arguments of token().
ScopeArgs == {<<>>, <<"https://www.googleapis.com/auth/drive.file">>}
\* HTTP status codes of a response.
StatusCodes == {"200 OK", "404 Not Found", "500 Internal Server Error"}
\* Errors of the hyper client: on the request, and while the body streams.
RequestErrors == {"ConnectionRefused", "Timeout"}
BodyErrors == {"IncompleteBody"}

GoodBody ==
    Utf8(JObject(<<Member("access_token", JStr("ya29.a")), Member("expires_in", JInt(1)),
                   Member("token_type", JStr("Bearer"))>>))
GoodBodyExtra ==
    Utf8(JObject(<<Member("token_type", JStr("MAC")), Member("scope", JStr("email")),
                   Member("expires_in", JInt(3600)), Member("access_token", JStr("ya29.b"))>>))
MissingAccessToken ==
    Utf8(JObject(<<Member("expires_in", JInt(3600)), Member("token_type", JStr("Bearer"))>>))
GoodArray == Utf8(JArray(<<JStr("ya29.c"), JInt(3600), JStr("Bearer")>>))
\* Response bodies the transport delivers.
Bodies == {GoodBody, GoodBodyExtra, MissingAccessToken, Utf8(Malformed), NotUtf8}

\* Generated bodies.  The values a member or an item may have:
Values == {JStr("ya29.a"), JStr("Bearer"), JInt(3600), JFloat, JNull}
Absent == [t |-> "absent", s |-> "", n |-> 0]

\* The members of ks, in that order, that f gives a value.
RECURSIVE MembersOf(_, _)
MembersOf(ks, f) ==
    IF ks = <<>> THEN <<>>
    ELSE (IF f[Head(ks)] = Absent THEN <<>> ELSE <<Member(Head(ks), f[Head(ks)])>>)
         \o MembersOf(Tail(ks), f)

KeyOrders ==
    {<<"access_token", "expires_in", "token_type">>,
     <<"token_type", "expires_in", "access_token">>,
     <<"expires_in", "access_token", "token_type">>}
Extra == Member("scope", JStr("email"))

\* Objects: each field absent or with any value, in several orders, with an
\* unknown member before or after, or with the first member repeated.
ObjectTexts ==
    LET plain == {MembersOf(ks, f) :
                    ks \in KeyOrders,
                    f \in [{"access_token", "expires_in", "token_type"} -> Values \cup {Absent}]}
    IN {JObject(m) : m \in plain}
       \cup {JObject(<<Extra>> \o m) : m \in plain}
       \cup {JObject(m \o <<Extra>>) : m \in plain}
       \cup {JObject(m \o <<Extra, Extra>>) : m \in plain}
       \cup {JObject(m \o <<m[1]>>) : m \in plain \ {<<>>}}

\* Arrays of up to MaxItems values.
ArrayTexts ==
    UNION {{JArray(vs) : vs \in [1..n -> Values]} : n \in 0..MaxItems}

AllTexts == ObjectTexts \cup ArrayTexts \cup {JScalar(v) : v \in Values} \cup {Malformed}
AllBodies == {Utf8(t) : t \in AllTexts} \cup {NotUtf8}

\* ------------------------------------------------------------- state
VARIABLES
    pc,         \* per call: "idle", "requested", "reading" (the body), "done"
    args,       \* per call: the scopes it was given
    status,     \* per call: the status code of its response ("" before)
    delivered,  \* per call: what the transport delivered to its future
    result,     \* per call: what its future resolved to
    requests,   \* the requests the client was handed, oldest first
    now,        \* the clock, in seconds
    lastRet     \* what the last api_key() / application_secret() returned

vars == <<pc, args, status, delivered, result, requests, now, lastRet>>

NoRet == [op |-> "none", key |-> NoneStr, secret |-> ApplicationSecretDefault]

Init ==
    /\ pc = [c \in Calls |-> "idle"]
    /\ args = [c \in Calls |-> <<>>]
    /\ status = [c \in Calls |-> ""]
    /\ delivered = [c \in Calls |-> Nothing]
    /\ result = [c \in Calls |-> Pending]
    /\ requests = <<>>
    /\ now = 0
    /\ lastRet = NoRet

\* ------------------------------------------------------------ actions
\* token() that returns an earlier Token while it has not expired.
token_cached(c, scopes) ==
    /\ pc[c] = "idle"
    /\ \A d \in Calls : d < c => pc[d] # "idle"
    /\ args' = [args EXCEPT ![c] = scopes]
    /\ IF \E d \in Calls : result[d].kind = "Token"
                           /\ result[d].token.expires_in_timestamp.v > now
       THEN /\ pc' = [pc EXCEPT ![c] = "done"]
            /\ result' = [result EXCEPT ![c] =
                  result[CHOOSE d \in Calls : result[d].kind = "Token"
                            /\ result[d].token.expires_in_timestamp.v > now]]
            /\ UNCHANGED <<requests, delivered>>
       ELSE /\ pc' = [pc EXCEPT ![c] = "requested"]
            /\ requests' = Append(requests, [by |-> c, at |-> now, req |-> RequestFor(scopes)])
            /\ UNCHANGED <<result, delivered>>
    /\ UNCHANGED <<status, now, lastRet>>

\* token(scopes), line 90: the c-th call builds the request and hands it to
\* the client; the future it returns is pending.
token(c, scopes) ==
    /\ pc[c] = "idle"
    /\ \A d \in Calls : d < c => pc[d] # "idle"
    /\ pc' = [pc EXCEPT ![c] = "requested"]
    /\ args' = [args EXCEPT ![c] = scopes]
    /\ requests' = Append(requests, [by |-> c, at |-> now, req |-> RequestFor(scopes)])
    /\ UNCHANGED <<status, delivered, result, now, lastRet>>

\* The request future fails and the error is taken for a parse error.
RequestFailsAsJSON(c, e) ==
    /\ pc[c] = "requested"
    /\ pc' = [pc EXCEPT ![c] = "done"]
    /\ delivered' = [delivered EXCEPT ![c] = RequestFailed(e)]
    /\ result' = [result EXCEPT ![c] = JSONError(e)]
    /\ UNCHANGED <<args, status, requests, now, lastRet>>

\* The request future fails with e: and_then (91) is skipped, then (97-101)
\* returns Err(ClientError(e)), and_then (113) is skipped.
RequestFails(c, e) ==
    /\ pc[c] = "requested"
    /\ pc' = [pc EXCEPT ![c] = "done"]
    /\ delivered' = [delivered EXCEPT ![c] = RequestFailed(e)]
    /\ result' = [result EXCEPT ![c] = ClientError(e)]
    /\ UNCHANGED <<args, status, requests, now, lastRet>>

\* The request future yields a response r with status st: the closure of
\* line 91 starts reading the body (into_body().concat2()).
ResponseArrives(c, st) ==
    /\ pc[c] = "requested"
    /\ pc' = [pc EXCEPT ![c] = "reading"]
    /\ status' = [status EXCEPT ![c] = st]
    /\ UNCHANGED <<args, delivered, result, requests, now, lastRet>>

\* concat2 fails with e: map (94) is skipped, then returns Err(ClientError(e)).
BodyFails(c, e) ==
    /\ pc[c] = "reading"
    /\ pc' = [pc EXCEPT ![c] = "done"]
    /\ delivered' = [delivered EXCEPT ![c] = BodyFailed(e)]
    /\ result' = [result EXCEPT ![c] = ClientError(e)]
    /\ UNCHANGED <<args, status, requests, now, lastRet>>

\* The body is complete, and a response that is not 2xx is made an error.
BodyCompleteChecksStatus(c, bytes) ==
    /\ pc[c] = "reading"
    /\ pc' = [pc EXCEPT ![c] = "done"]
    /\ delivered' = [delivered EXCEPT ![c] = Body(bytes)]
    /\ result' = [result EXCEPT ![c] =
          IF status[c] = "200 OK" THEN Decode(bytes, now) ELSE ClientError(status[c])]
    /\ UNCHANGED <<args, status, requests, now, lastRet>>

\* The body is complete, and the expiry is counted from the time of the call.
BodyCompleteClockAtCall(c, bytes) ==
    /\ pc[c] = "reading"
    /\ pc' = [pc EXCEPT ![c] = "done"]
    /\ delivered' = [delivered EXCEPT ![c] = Body(bytes)]
    /\ result' = [result EXCEPT ![c] = Decode(bytes, requests[c].at)]
    /\ UNCHANGED <<args, status, requests, now, lastRet>>

\* concat2 yields the whole body: map (94), then (97-112) and and_then
\* (113-124) run in this poll, with the clock as it is now.
BodyComplete(c, bytes) ==
    /\ pc[c] = "reading"
    /\ pc' = [pc EXCEPT ![c] = "done"]
    /\ delivered' = [delivered EXCEPT ![c] = Body(bytes)]
    /\ result' = [result EXCEPT ![c] = Decode(bytes, now)]
    /\ UNCHANGED <<args, status, requests, now, lastRet>>

\* A second passes.
Tick ==
    /\ now < MaxClock
    /\ now' = now + 1
    /\ UNCHANGED <<pc, args, status, delivered, result, requests, lastRet>>

\* api_key() with a key configured.
api_key_value_static == Some("AIza")

\* The value api_key() returns (line 129).
api_key_value == NoneStr

\* api_key(), lines 128-130.
api_key ==
    /\ lastRet' = [NoRet EXCEPT !.op = "api_key", !.key = api_key_value]
    /\ UNCHANGED <<pc, args, status, delivered, result, requests, now>>

\* application_secret(), lines 134-136.
application_secret ==
    /\ lastRet' = [NoRet EXCEPT !.op = "application_secret", !.secret = ApplicationSecretDefault]
    /\ UNCHANGED <<pc, args, status, delivered, result, requests, now>>

\* One step of the token() calls in Cs, or of the transport on their behalf,
\* with the inputs drawn from the given sets.
Step(Cs, scopeArgs, codes, requestErrors, bodyErrors, bodies) ==
    \/ \E c \in Cs, sc \in scopeArgs : token(c, sc)
    \/ \E c \in Cs, e \in requestErrors : RequestFails(c, e)
    \/ \E c \in Cs, st \in codes : ResponseArrives(c, st)
    \/ \E c \in Cs, e \in bodyErrors : BodyFails(c, e)
    \/ \E c \in Cs, b \in bodies : BodyComplete(c, b)

\* The client in use: calls overlap freely, the transport fails or answers,
\* time passes, and the accessors are called at any point.
Next ==
    \/ Step(Calls, {<<>>}, {"200 OK"}, RequestErrors, BodyErrors, Bodies)
    \/ Tick
    \/ api_key
    \/ application_secret

Spec == Init /\ [][Next]_vars

\* The same with the scopes argument varied.
NextScopes ==
    \/ Step(Calls, ScopeArgs, {"200 OK"}, RequestErrors, BodyErrors, Bodies)
    \/ Tick

SpecScopes == Init /\ [][NextScopes]_vars

\* The same with the status code of the response varied.
NextStatus ==
    \/ Step(Calls, {<<>>}, StatusCodes, {"ConnectionRefused"}, BodyErrors,
            Bodies \cup {GoodArray})
    \/ Tick

SpecStatus == Init /\ [][NextStatus]_vars

\* One call, over every generated response body.
NextParse ==
    \/ Step({1}, {<<>>}, {"200 OK"}, {"ConnectionRefused"}, BodyErrors, AllBodies)
    \/ Tick

SpecParse == Init /\ [][NextParse]_vars

\* ================================================================ claims
\* What the wire contract says of a decoded body text.
TokenFields == {"access_token", "expires_in", "token_type"}
MembersNamed(text, k) == {i \in DOMAIN text.items : text.kind = "object" /\ text.items[i].k = k}
WireType(k) == IF k = "expires_in" THEN "integer" ELSE "string"
\* The text lacks field k, or has it with a value of the wrong type.
LacksOrMistypes(text, k) ==
    \/ MembersNamed(text, k) = {}
    \/ \E i \in MembersNamed(text, k) : text.items[i].v.t # WireType(k)
\* The text is a JSON object with each of the three fields once and well typed
\* (and any other members).
TokenJson(text) ==
    /\ text.kind = "object"
    /\ \A k \in TokenFields :
          /\ Cardinality(MembersNamed(text, k)) = 1
          /\ ~LacksOrMistypes(text, k)
FieldOf(text, k) == text.items[CHOOSE i \in MembersNamed(text, k) : TRUE].v

Issued(c) == pc[c] # "idle"
Done(c) == pc[c] = "done"
GotBody(c) == Done(c) /\ delivered[c].kind = "body"
GotText(c) == GotBody(c) /\ delivered[c].bytes.utf8
RequestsBy(c) == {i \in DOMAIN requests : requests[i].by = c}
\* The clock when call c resolved to its Token.
ResolvedAt(c) == result[c].token.expires_in_timestamp.v - result[c].token.expires_in.v

\* C1: a call whose request the transport failed, or whose body failed while
\* it was read, has resolved to ClientError carrying that very error: not to a
\* Token, not to a JSONError.
C1_TransportFailureIsClientError ==
    \A c \in Calls :
        delivered[c].kind \in {"request_error", "body_error"} =>
            /\ Done(c)
            /\ result[c].kind = "ClientError"
            /\ result[c].err = delivered[c].err
            /\ result[c].token = NoToken

C1_Witness ==
    \E c, d \in Calls :
        /\ delivered[c].kind = "request_error" /\ result[c].err = "Timeout"
        /\ delivered[d].kind = "body_error" /\ result[d].err = "IncompleteBody"

\* C2: a call whose body arrived whole and decoded resolves to JSONError when
\* the text is not JSON or lacks or mistypes one of the three fields, and to a
\* Token when it is an object with the three well-typed fields, extra members
\* or not.
C2_ParseFailureIsJSONError ==
    \A c \in Calls :
        GotText(c) =>
            LET text == delivered[c].bytes.text IN
            /\ (text.kind = "malformed" \/ \E k \in TokenFields : LacksOrMistypes(text, k))
                  => result[c].kind = "JSONError"
            /\ TokenJson(text) => result[c].kind = "Token"

\* C3: the step that completes a response with fields A, E, T resolves the call
\* to the Token (A, none, T, Some(E), Some(now + E)), now being the clock at
\* that step.
C3_TokenFromResponse ==
    [][\A c \in Calls :
          (/\ pc[c] = "reading" /\ pc'[c] = "done"
           /\ delivered'[c].kind = "body" /\ delivered'[c].bytes.utf8
           /\ TokenJson(delivered'[c].bytes.text))
          => LET text == delivered'[c].bytes.text
                 E == FieldOf(text, "expires_in").n
             IN result'[c] =
                  [kind |-> "Token", err |-> "",
                   token |-> [access_token |-> FieldOf(text, "access_token").s,
                              refresh_token |-> [some |-> FALSE, v |-> ""],
                              token_type |-> FieldOf(text, "token_type").s,
                              expires_in |-> [some |-> TRUE, v |-> E],
                              expires_in_timestamp |-> [some |-> TRUE, v |-> now + E]]]
      ]_vars

C3_Witness ==
    /\ GotText(1)
    /\ TokenJson(delivered[1].bytes.text)
    /\ Len(delivered[1].bytes.text.items) = 4
    /\ result[1].kind = "Token"
    /\ result[1].token.access_token = "Bearer"
    /\ result[1].token.token_type = "ya29.a"
    /\ result[1].token.expires_in_timestamp = [some |-> TRUE, v |-> 3601]

\* C4: whatever the scopes, every request handed to the client is the one GET
\* of the token URI with the Metadata-Flavor: Google header and an empty body,
\* and two calls given the same response resolve alike (up to the expiry
\* time, which follows the clock).
C4_RequestFixedScopesIgnored ==
    /\ \A i \in DOMAIN requests :
          /\ requests[i].req.method = "GET"
          /\ requests[i].req.uri =
                [text |-> "http://metadata.google.internal/computeMetadata/v1/instance/service-accounts/default/token",
                 query |-> <<>>]
          /\ <<"Metadata-Flavor", "Google">> \in requests[i].req.headers
          /\ requests[i].req.body = <<>>
          /\ \A j \in DOMAIN requests : requests[j].req = requests[i].req
    /\ \A c, d \in Calls :
          (Done(c) /\ Done(d) /\ delivered[c] = delivered[d]) =>
              /\ result[c].kind = result[d].kind
              /\ result[c].err = result[d].err
              /\ [result[c].token EXCEPT !.expires_in_timestamp = NoneInt]
                    = [result[d].token EXCEPT !.expires_in_timestamp = NoneInt]

C4_Witness ==
    \E c, d \in Calls :
        /\ args[c] = <<>> /\ args[d] # <<>>
        /\ Len(requests) = 2
        /\ GotText(c) /\ delivered[c] = delivered[d]
        /\ result[c].kind = "Token" /\ result[d].kind = "Token"

\* C5: once two calls have been made, each call made has exactly one request of its own in the client's log,
\* and each finished call has resolved, to the outcome of what the transport
\* delivered to it and to no other call.
C5_EachCallOwnRequestOwnOutcome ==
    (\E c, d \in Calls : c # d /\ Issued(c) /\ Issued(d)) =>
    /\ Len(requests) = Cardinality({c \in Calls : Issued(c)})
    /\ \A c \in Calls : Cardinality(RequestsBy(c)) = IF Issued(c) THEN 1 ELSE 0
    /\ \A c \in Calls :
          Done(c) =>
              /\ result[c].kind \in {"Token", "ClientError", "JSONError"}
              /\ delivered[c].kind \in {"request_error", "body_error"}
                    => result[c] = ClientError(delivered[c].err)
              /\ (GotText(c) /\ TokenJson(delivered[c].bytes.text))
                    => result[c].token.access_token
                          = FieldOf(delivered[c].bytes.text, "access_token").s

\* C6: every finished call has resolved to a Token or to a RequestError, a
\* body that is not UTF-8 giving ClientError; none has panicked.
C6_EveryFailureIsAResult ==
    \A c \in Calls :
        Done(c) =>
            /\ result[c].kind # "Panic"
            /\ (GotBody(c) /\ ~delivered[c].bytes.utf8) => result[c].kind = "ClientError"

\* C7: api_key() returns none and application_secret() returns the empty
\* ApplicationSecret, before and after any token() calls, and a step that
\* changes what they last returned changes nothing else.
C7_AccessorsConstant ==
    [][/\ lastRet'.op = "api_key" => lastRet'.key = [some |-> FALSE, v |-> ""]
       /\ lastRet'.op = "application_secret" =>
             lastRet'.secret = [client_id |-> "", client_secret |-> "", token_uri |-> "",
                                auth_uri |-> "", redirect_uris |-> <<>>]
       /\ lastRet' # lastRet => UNCHANGED <<pc, args, status, delivered, result, requests, now>>
      ]_vars

C7_Witness ==
    /\ lastRet.op = "api_key"
    /\ \E c, d \in Calls : result[c].kind = "Token" /\ result[d].kind = "ClientError"

\* C8: the client's log holds one request per token() call made, whether
\* earlier calls failed or returned a Token that is still valid, and a Token is
\* always built from the response to the call's own request.
C8_OneRequestPerCall ==
    /\ Len(requests) = Cardinality({c \in Calls : Issued(c)})
    /\ \A c \in Calls : Issued(c) => Cardinality(RequestsBy(c)) = 1
    /\ \A c \in Calls : result[c].kind = "Token" => GotText(c)
    /\ \A c \in Calls :
          (result[c].kind = "Token" /\ TokenJson(delivered[c].bytes.text))
              => result[c].token.access_token
                    = FieldOf(delivered[c].bytes.text, "access_token").s

\* A second call made after the first returned a Token that has not expired,
\* and a call made after a failed one.
C8_Witness ==
    /\ result[1].kind = "Token"
    /\ result[1].token.expires_in_timestamp.v > now
    /\ Issued(2)
    /\ \A i \in RequestsBy(2) : requests[i].at > ResolvedAt(1)
    /\ result[2].kind = "Token"
    /\ result[2] # result[1]
    /\ Len(requests) = 2

\* C9: a call resolves to a Token only in the step that completes its body,
\* after its request was sent; the Token's expires_in_timestamp is the clock
\* of that step plus expires_in; before that step the call holds no Token, and
\* after it the result never changes.
C9_ExpiryComputedOnceAfterParse ==
    [][\A c \in Calls :
          /\ (pc[c] # "done" /\ pc'[c] = "done" /\ result'[c].kind = "Token") =>
                /\ pc[c] = "reading"
                /\ RequestsBy(c) # {}
                /\ result[c] = Pending
                /\ delivered'[c].kind = "body"
                /\ result'[c].token.expires_in_timestamp
                      = [some |-> TRUE, v |-> now + result'[c].token.expires_in.v]
          /\ pc'[c] # "done" => result'[c] = Pending
          /\ pc[c] = "done" => (pc'[c] = "done" /\ result'[c] = result[c])
      ]_vars

\* A Token resolved after the clock moved on from the call, read later still.
C9_Witness ==
    \E c \in Calls :
        /\ result[c].kind = "Token"
        /\ \A i \in RequestsBy(c) : requests[i].at < ResolvedAt(c)
        /\ ResolvedAt(c) < now

====
